---- MODULE Spec2Model ----
(***************************************************************************)
(* hwloc-rs, src/ffi.rs: the enumerations that mirror the native library's *)
(* constants, the conversions of TopologyFlag, the ordering of ObjectType  *)
(* (a pass-through of the native hwloc_compare_types) and the two extern   *)
(* blocks (link name libhwloc on Windows, hwloc elsewhere).                *)
(*                                                                         *)
(* The functions of ffi.rs are pure.  The state is the last call: which    *)
(* operation ran, its arguments and what it returned.  Two operations run  *)
(* on the outcome of the call before them: the comparison with its         *)
(* arguments exchanged, and from_i64 applied to the value to_i64 returned. *)
(***************************************************************************)
EXTENDS Integers, Sequences, FiniteSets

VARIABLES
    op,          \* the operation that ran last
    self,        \* ObjectType: the receiver of partial_cmp / eq / the cast
    other,       \* ObjectType: the argument of partial_cmp / eq
    compared,    \* the c_int hwloc_compare_types returned to partial_cmp
    result,      \* what the operation returned
    swapResult,  \* what other.partial_cmp(self) returned, once it ran
    flag,        \* TopologyFlag: the receiver of to_i64 / to_u64 / the cast
    n,           \* i64: the argument of from_i64
    depthErr,    \* TypeDepthError: the receiver of the cast
    decl,        \* the foreign declaration the build resolved last
    oobWord      \* the word this build of the native library holds right
                 \* after its 20-entry type-order table (read for TypeMax)

vars ==
    <<op, self, other, compared, result, swapResult, flag, n, depthErr, decl,
      oobWord>>

\* ------------------------------------------------------------------ bounds

\* from_i64 is applied to every i64 in -MaxN .. MaxN.
MaxN == 8

\* The word after the native type-order table is any of 0 .. MaxOobWord.
MaxOobWord == 3

\* ------------------------------------------------------------ Option, None

None == <<"None">>

Some(x) == <<"Some", x>>

NoVal == "-"

\* ------------------------------------------------------------- ObjectType

\* A declaration order with Memcache and Die exchanged.
ObjectTypeVariants_DieFirst ==
    << "Machine", "Package", "Core", "PU",
       "L1Cache", "L2Cache", "L3Cache", "L4Cache", "L5Cache",
       "L1ICache", "L2ICache", "L3ICache",
       "Group", "NUMANode", "Bridge", "PCIDevice", "OSDevice", "Misc",
       "Die", "Memcache", "TypeMax" >>

\* The variants of ObjectType in declaration order (#[repr(u32)], no explicit
\* discriminant).
ObjectTypeVariants ==
    << "Machine", "Package", "Core", "PU",
       "L1Cache", "L2Cache", "L3Cache", "L4Cache", "L5Cache",
       "L1ICache", "L2ICache", "L3ICache",
       "Group", "NUMANode", "Bridge", "PCIDevice", "OSDevice", "Misc",
       "Memcache", "Die", "TypeMax" >>

ObjectType == { ObjectTypeVariants[i] : i \in 1..Len(ObjectTypeVariants) }

\* `t as u32`: Rust gives the first variant 0 and each next one the
\* previous discriminant plus one.
ObjectTypeAsU32(t) ==
    (CHOOSE i \in 1..Len(ObjectTypeVariants) : ObjectTypeVariants[i] = t) - 1

\* --------------------------------------------------------- TypeDepthError

TypeDepthErrorVariants ==
    { "TypeDepthUnknown", "TypeDepthMultiple", "TypeDepthNumaNode",
      "TypeDepthBridge", "TypeDepthPCIDevice", "TypeDepthOSDevice",
      "TypeDepthMisc", "TypeDepthMemcache", "Unkown" }

\* TypeDepthMemcache given TypeDepthMisc's value.
TypeDepthErrorAsInt_Dup(e) ==
    CASE e = "TypeDepthUnknown"   -> -1
      [] e = "TypeDepthMultiple"  -> -2
      [] e = "TypeDepthNumaNode"  -> -3
      [] e = "TypeDepthBridge"    -> -4
      [] e = "TypeDepthPCIDevice" -> -5
      [] e = "TypeDepthOSDevice"  -> -6
      [] e = "TypeDepthMisc"      -> -7
      [] e = "TypeDepthMemcache"  -> -7
      [] e = "Unkown"             -> -99

\* `e as i32`: the explicit discriminants.
TypeDepthErrorAsInt(e) ==
    CASE e = "TypeDepthUnknown"   -> -1
      [] e = "TypeDepthMultiple"  -> -2
      [] e = "TypeDepthNumaNode"  -> -3
      [] e = "TypeDepthBridge"    -> -4
      [] e = "TypeDepthPCIDevice" -> -5
      [] e = "TypeDepthOSDevice"  -> -6
      [] e = "TypeDepthMisc"      -> -7
      [] e = "TypeDepthMemcache"  -> -8
      [] e = "Unkown"             -> -99

\* ----------------------------------------------------------- TopologyFlag

TOPOLOGY_FLAG_INCLUDE_DISALLOWED == 1

TOPOLOGY_FLAG_IS_THIS_SYSTEM == 2

TOPOLOGY_FLAG_THISSYSTEM_ALLOWED_RESOURCES == 4

TopologyFlag == { "IncludeDisallowed", "IsThisSystem", "ThisSystemAllowedResources" }

\* The discriminants with the first two exchanged.
TopologyFlagAsInt_Swapped(f) ==
    CASE f = "IncludeDisallowed"          -> TOPOLOGY_FLAG_IS_THIS_SYSTEM
      [] f = "IsThisSystem"               -> TOPOLOGY_FLAG_INCLUDE_DISALLOWED
      [] f = "ThisSystemAllowedResources" -> TOPOLOGY_FLAG_THISSYSTEM_ALLOWED_RESOURCES

\* `f as i64` / `f as u64`: the discriminant, each set from its constant.
TopologyFlagAsInt(f) ==
    CASE f = "IncludeDisallowed"          -> TOPOLOGY_FLAG_INCLUDE_DISALLOWED
      [] f = "IsThisSystem"               -> TOPOLOGY_FLAG_IS_THIS_SYSTEM
      [] f = "ThisSystemAllowedResources" -> TOPOLOGY_FLAG_THISSYSTEM_ALLOWED_RESOURCES

\* ToPrimitive::to_i64: one arm per variant, each Some of the variant's value.
to_i64(f) ==
    CASE f = "IsThisSystem"               -> Some(TopologyFlagAsInt("IsThisSystem"))
      [] f = "IncludeDisallowed"          -> Some(TopologyFlagAsInt("IncludeDisallowed"))
      [] f = "ThisSystemAllowedResources" ->
             Some(TopologyFlagAsInt("ThisSystemAllowedResources"))

\* i64::to_u64 (num): None for a negative value, else the same number.
i64_to_u64(x) == IF x >= 0 THEN Some(x) ELSE None

\* ToPrimitive::to_u64: self.to_i64().and_then(|x| x.to_u64()).
to_u64(f) ==
    LET r == to_i64(f)
    IN  IF r = None THEN None ELSE i64_to_u64(r[2])

\* from_i64 with the catch-all arm answering IncludeDisallowed.
from_i64_NoNone(k) ==
    CASE k = TOPOLOGY_FLAG_IS_THIS_SYSTEM -> Some("IsThisSystem")
      [] k = TOPOLOGY_FLAG_INCLUDE_DISALLOWED -> Some("IncludeDisallowed")
      [] k = TOPOLOGY_FLAG_THISSYSTEM_ALLOWED_RESOURCES ->
             Some("ThisSystemAllowedResources")
      [] OTHER -> Some("IncludeDisallowed")

\* FromPrimitive::from_i64: the three constants, None for anything else.
from_i64(k) ==
    CASE k = TOPOLOGY_FLAG_IS_THIS_SYSTEM -> Some("IsThisSystem")
      [] k = TOPOLOGY_FLAG_INCLUDE_DISALLOWED -> Some("IncludeDisallowed")
      [] k = TOPOLOGY_FLAG_THISSYSTEM_ALLOWED_RESOURCES ->
             Some("ThisSystemAllowedResources")
      [] OTHER -> None

\* ------------------------------------------- the native hwloc_compare_types
\* ffi.rs only declares hwloc_compare_types; its body is the native
\* library's (hwloc 2.x, topology.c), written here from the library's
\* contract: hwloc.h documents a negative, zero or positive result when
\* type1 objects usually include, are the same as, or are included in type2
\* objects, and HWLOC_TYPE_UNORDERED (INT_MAX) when the two types can not
\* be compared.

HWLOC_TYPE_UNORDERED == 2147483647

\* hwloc__obj_type_is_normal: type <= HWLOC_OBJ_GROUP || type == HWLOC_OBJ_DIE.
hwloc__obj_type_is_normal(t) ==
    \/ ObjectTypeAsU32(t) <= ObjectTypeAsU32("Group")
    \/ t = "Die"

\* obj_type_order[]: the depth rank of each of the 20 object types.  The
\* table has no entry for the sentinel TypeMax: the read at index 20 is out
\* of bounds and yields the word the build placed after the table.
obj_type_order(t) ==
    CASE t = "Machine"   -> 0
      [] t = "Group"     -> 1
      [] t = "Memcache"  -> 2
      [] t = "NUMANode"  -> 3
      [] t = "Package"   -> 4
      [] t = "Die"       -> 5
      [] t = "L5Cache"   -> 6
      [] t = "L4Cache"   -> 7
      [] t = "L3Cache"   -> 8
      [] t = "L3ICache"  -> 9
      [] t = "L2Cache"   -> 10
      [] t = "L2ICache"  -> 11
      [] t = "L1Cache"   -> 12
      [] t = "L1ICache"  -> 13
      [] t = "Core"      -> 14
      [] t = "Bridge"    -> 15
      [] t = "PCIDevice" -> 16
      [] t = "OSDevice"  -> 17
      [] t = "PU"        -> 18
      [] t = "Misc"      -> 19
      [] t = "TypeMax"   -> oobWord

\* Only normal types are comparable with each other; the others compare
\* with Machine and among themselves.  order1 - order2 is an unsigned
\* difference returned as int: for ranks this small, the signed difference.
hwloc_compare_types(type1, type2) ==
    LET order1 == obj_type_order(type1)
        order2 == obj_type_order(type2)
    IN  IF /\ ~hwloc__obj_type_is_normal(type1)
           /\ hwloc__obj_type_is_normal(type2)
           /\ type2 # "Machine"
        THEN HWLOC_TYPE_UNORDERED
        ELSE IF /\ ~hwloc__obj_type_is_normal(type2)
                /\ hwloc__obj_type_is_normal(type1)
                /\ type1 # "Machine"
        THEN HWLOC_TYPE_UNORDERED
        ELSE order1 - order2

\* The object types the native contract covers (TypeMax is its sentinel).
ValidObjectType == ObjectType \ {"TypeMax"}

\* "Objects of type A include objects of type B", as the native library
\* defines it: both are types it can compare and A ranks above B.
Includes(A, B) ==
    /\ A \in ValidObjectType
    /\ B \in ValidObjectType
    /\ \/ hwloc__obj_type_is_normal(A) = hwloc__obj_type_is_normal(B)
       \/ A = "Machine"
       \/ B = "Machine"
    /\ obj_type_order(A) < obj_type_order(B)

\* The inclusions the doc comments of ObjectType and the tests state:
\* Machine is the root of every topology, a Die is a part of a Package and
\* holds cores, logical processors share a Core, a Memcache has a NUMANode
\* child, and PU > L1Cache.
DocIncludes ==
    { <<"Machine", t>> : t \in ValidObjectType \ {"Machine"} }
    \cup { <<"Package", "Die">>, <<"Die", "Core">>, <<"Core", "PU">>,
           <<"Memcache", "NUMANode">>, <<"L1Cache", "PU">> }

\* ------------------------------------------------- PartialOrd, PartialEq

\* partial_cmp with Less and Greater exchanged.
partial_cmp_Reversed(a, b) ==
    LET c == hwloc_compare_types(a, b)
    IN  CASE c < 0 -> Some("Greater")
          [] c = 0 -> Some("Equal")
          [] c > 0 -> Some("Less")
          [] OTHER -> None

\* impl PartialOrd for ObjectType: one call of hwloc_compare_types, then
\* the sign of the c_int it returned.
partial_cmp(a, b) ==
    LET c == hwloc_compare_types(a, b)
    IN  CASE c < 0 -> Some("Less")
          [] c = 0 -> Some("Equal")
          [] c > 0 -> Some("Greater")
          [] OTHER -> None

\* eq answering true for every result but Some(Less).
eq_NotLess(a, b) ==
    IF partial_cmp(a, b) = Some("Less") THEN FALSE ELSE TRUE

\* impl PartialEq for ObjectType: true for Some(Equal), false otherwise.
eq(a, b) ==
    IF partial_cmp(a, b) = Some("Equal") THEN TRUE ELSE FALSE

\* ------------------------------------------------------ the extern blocks

ExternWindows ==
    <<
       [name |-> "hwloc_topology_init",
        params |-> <<<<"topology", "*mut *mut HwlocTopology">>>>,
        ret |-> "c_int"],
       [name |-> "hwloc_topology_load",
        params |-> <<<<"topology", "*mut HwlocTopology">>>>,
        ret |-> "c_int"],
       [name |-> "hwloc_topology_destroy",
        params |-> <<<<"topology", "*mut HwlocTopology">>>>,
        ret |-> "()"],
       [name |-> "hwloc_topology_set_flags",
        params |-> <<<<"topology", "*mut HwlocTopology">>, <<"flags", "c_ulonglong">>>>,
        ret |-> "c_int"],
       [name |-> "hwloc_topology_get_flags",
        params |-> <<<<"topology", "*mut HwlocTopology">>>>,
        ret |-> "c_ulonglong"],
       [name |-> "hwloc_topology_get_support",
        params |-> <<<<"topology", "*mut HwlocTopology">>>>,
        ret |-> "*const TopologySupport"],
       [name |-> "hwloc_topology_get_depth",
        params |-> <<<<"topology", "*mut HwlocTopology">>>>,
        ret |-> "c_uint"],
       [name |-> "hwloc_get_type_depth",
        params |-> <<<<"topology", "*mut HwlocTopology">>, <<"object_type", "ObjectType">>>>,
        ret |-> "c_int"],
       [name |-> "hwloc_get_depth_type",
        params |-> <<<<"topology", "*mut HwlocTopology">>, <<"depth", "c_uint">>>>,
        ret |-> "ObjectType"],
       [name |-> "hwloc_get_nbobjs_by_depth",
        params |-> <<<<"topology", "*mut HwlocTopology">>, <<"depth", "c_uint">>>>,
        ret |-> "c_uint"],
       [name |-> "hwloc_get_obj_by_depth",
        params |-> <<<<"topology", "*mut HwlocTopology">>, <<"depth", "c_uint">>, <<"idx", "c_uint">>>>,
        ret |-> "*mut TopologyObject"],
       [name |-> "hwloc_set_cpubind",
        params |-> <<<<"topology", "*mut HwlocTopology">>, <<"set", "*const IntHwlocBitmap">>, <<"flags", "c_int">>>>,
        ret |-> "c_int"],
       [name |-> "hwloc_get_cpubind",
        params |-> <<<<"topology", "*mut HwlocTopology">>, <<"set", "*mut IntHwlocBitmap">>, <<"flags", "c_int">>>>,
        ret |-> "c_int"],
       [name |-> "hwloc_get_last_cpu_location",
        params |-> <<<<"topology", "*mut HwlocTopology">>, <<"set", "*mut IntHwlocBitmap">>, <<"flags", "c_int">>>>,
        ret |-> "c_int"],
       [name |-> "hwloc_get_proc_last_cpu_location",
        params |-> <<<<"topology", "*mut HwlocTopology">>, <<"pid", "pid_t">>, <<"set", "*mut IntHwlocBitmap">>, <<"flags", "c_int">>>>,
        ret |-> "c_int"],
       [name |-> "hwloc_set_proc_cpubind",
        params |-> <<<<"topology", "*mut HwlocTopology">>, <<"pid", "pid_t">>, <<"set", "*const IntHwlocBitmap">>, <<"flags", "c_int">>>>,
        ret |-> "c_int"],
       [name |-> "hwloc_get_proc_cpubind",
        params |-> <<<<"topology", "*mut HwlocTopology">>, <<"pid", "pid_t">>, <<"set", "*mut IntHwlocBitmap">>, <<"flags", "c_int">>>>,
        ret |-> "c_int"],
       [name |-> "hwloc_set_thread_cpubind",
        params |-> <<<<"topology", "*mut HwlocTopology">>, <<"thread", "pthread_t">>, <<"set", "*const IntHwlocBitmap">>, <<"flags", "c_int">>>>,
        ret |-> "c_int"],
       [name |-> "hwloc_get_thread_cpubind",
        params |-> <<<<"topology", "*mut HwlocTopology">>, <<"pid", "pthread_t">>, <<"set", "*mut IntHwlocBitmap">>, <<"flags", "c_int">>>>,
        ret |-> "c_int"],
       [name |-> "hwloc_bitmap_alloc",
        params |-> <<>>,
        ret |-> "*mut IntHwlocBitmap"],
       [name |-> "hwloc_bitmap_alloc_full",
        params |-> <<>>,
        ret |-> "*mut IntHwlocBitmap"],
       [name |-> "hwloc_bitmap_free",
        params |-> <<<<"bitmap", "*mut IntHwlocBitmap">>>>,
        ret |-> "()"],
       [name |-> "hwloc_bitmap_list_asprintf",
        params |-> <<<<"strp", "*mut *mut c_char">>, <<"bitmap", "*const IntHwlocBitmap">>>>,
        ret |-> "c_int"],
       [name |-> "hwloc_bitmap_set",
        params |-> <<<<"bitmap", "*mut IntHwlocBitmap">>, <<"id", "c_uint">>>>,
        ret |-> "()"],
       [name |-> "hwloc_bitmap_set_range",
        params |-> <<<<"bitmap", "*mut IntHwlocBitmap">>, <<"begin", "c_uint">>, <<"end", "c_int">>>>,
        ret |-> "()"],
       [name |-> "hwloc_bitmap_clr",
        params |-> <<<<"bitmap", "*mut IntHwlocBitmap">>, <<"id", "c_uint">>>>,
        ret |-> "()"],
       [name |-> "hwloc_bitmap_clr_range",
        params |-> <<<<"bitmap", "*mut IntHwlocBitmap">>, <<"begin", "c_uint">>, <<"end", "c_int">>>>,
        ret |-> "()"],
       [name |-> "hwloc_bitmap_weight",
        params |-> <<<<"bitmap", "*const IntHwlocBitmap">>>>,
        ret |-> "c_int"],
       [name |-> "hwloc_bitmap_zero",
        params |-> <<<<"bitmap", "*mut IntHwlocBitmap">>>>,
        ret |-> "()"],
       [name |-> "hwloc_bitmap_iszero",
        params |-> <<<<"bitmap", "*const IntHwlocBitmap">>>>,
        ret |-> "c_int"],
       [name |-> "hwloc_bitmap_isset",
        params |-> <<<<"bitmap", "*const IntHwlocBitmap">>, <<"id", "c_uint">>>>,
        ret |-> "c_int"],
       [name |-> "hwloc_bitmap_singlify",
        params |-> <<<<"bitmap", "*mut IntHwlocBitmap">>>>,
        ret |-> "()"],
       [name |-> "hwloc_bitmap_not",
        params |-> <<<<"result", "*mut IntHwlocBitmap">>, <<"bitmap", "*const IntHwlocBitmap">>>>,
        ret |-> "()"],
       [name |-> "hwloc_bitmap_first",
        params |-> <<<<"bitmap", "*const IntHwlocBitmap">>>>,
        ret |-> "c_int"],
       [name |-> "hwloc_bitmap_last",
        params |-> <<<<"bitmap", "*const IntHwlocBitmap">>>>,
        ret |-> "c_int"],
       [name |-> "hwloc_bitmap_dup",
        params |-> <<<<"src", "*const IntHwlocBitmap">>>>,
        ret |-> "*mut IntHwlocBitmap"],
       [name |-> "hwloc_bitmap_compare",
        params |-> <<<<"left", "*const IntHwlocBitmap">>, <<"right", "*const IntHwlocBitmap">>>>,
        ret |-> "c_int"],
       [name |-> "hwloc_bitmap_isequal",
        params |-> <<<<"left", "*const IntHwlocBitmap">>, <<"right", "*const IntHwlocBitmap">>>>,
        ret |-> "c_int"],
       [name |-> "hwloc_bitmap_isfull",
        params |-> <<<<"bitmap", "*const IntHwlocBitmap">>>>,
        ret |-> "c_int"],
       [name |-> "hwloc_bitmap_next",
        params |-> <<<<"bitmap", "*const IntHwlocBitmap">>, <<"prev", "c_int">>>>,
        ret |-> "c_int"],
       [name |-> "hwloc_obj_type_snprintf",
        params |-> <<<<"into", "*mut c_char">>, <<"size", "c_int">>, <<"object", "*const TopologyObject">>, <<"verbose", "bool">>>>,
        ret |-> "c_int"],
       [name |-> "hwloc_obj_attr_snprintf",
        params |-> <<<<"into", "*mut c_char">>, <<"size", "c_int">>, <<"object", "*const TopologyObject">>, <<"separator", "*const c_char">>, <<"verbose", "bool">>>>,
        ret |-> "c_int"],
       [name |-> "hwloc_compare_types",
        params |-> <<<<"type1", "ObjectType">>, <<"type2", "ObjectType">>>>,
        ret |-> "c_int"]
    >>

ExternOther ==
    <<
       [name |-> "hwloc_topology_init",
        params |-> <<<<"topology", "*mut *mut HwlocTopology">>>>,
        ret |-> "c_int"],
       [name |-> "hwloc_topology_load",
        params |-> <<<<"topology", "*mut HwlocTopology">>>>,
        ret |-> "c_int"],
       [name |-> "hwloc_topology_destroy",
        params |-> <<<<"topology", "*mut HwlocTopology">>>>,
        ret |-> "()"],
       [name |-> "hwloc_topology_set_flags",
        params |-> <<<<"topology", "*mut HwlocTopology">>, <<"flags", "c_ulonglong">>>>,
        ret |-> "c_int"],
       [name |-> "hwloc_topology_get_flags",
        params |-> <<<<"topology", "*mut HwlocTopology">>>>,
        ret |-> "c_ulonglong"],
       [name |-> "hwloc_topology_get_support",
        params |-> <<<<"topology", "*mut HwlocTopology">>>>,
        ret |-> "*const TopologySupport"],
       [name |-> "hwloc_topology_get_depth",
        params |-> <<<<"topology", "*mut HwlocTopology">>>>,
        ret |-> "c_uint"],
       [name |-> "hwloc_get_type_depth",
        params |-> <<<<"topology", "*mut HwlocTopology">>, <<"object_type", "ObjectType">>>>,
        ret |-> "c_int"],
       [name |-> "hwloc_get_depth_type",
        params |-> <<<<"topology", "*mut HwlocTopology">>, <<"depth", "c_uint">>>>,
        ret |-> "ObjectType"],
       [name |-> "hwloc_get_nbobjs_by_depth",
        params |-> <<<<"topology", "*mut HwlocTopology">>, <<"depth", "c_uint">>>>,
        ret |-> "c_uint"],
       [name |-> "hwloc_get_obj_by_depth",
        params |-> <<<<"topology", "*mut HwlocTopology">>, <<"depth", "c_uint">>, <<"idx", "c_uint">>>>,
        ret |-> "*mut TopologyObject"],
       [name |-> "hwloc_set_cpubind",
        params |-> <<<<"topology", "*mut HwlocTopology">>, <<"set", "*const IntHwlocBitmap">>, <<"flags", "c_int">>>>,
        ret |-> "c_int"],
       [name |-> "hwloc_get_cpubind",
        params |-> <<<<"topology", "*mut HwlocTopology">>, <<"set", "*mut IntHwlocBitmap">>, <<"flags", "c_int">>>>,
        ret |-> "c_int"],
       [name |-> "hwloc_get_last_cpu_location",
        params |-> <<<<"topology", "*mut HwlocTopology">>, <<"set", "*mut IntHwlocBitmap">>, <<"flags", "c_int">>>>,
        ret |-> "c_int"],
       [name |-> "hwloc_get_proc_last_cpu_location",
        params |-> <<<<"topology", "*mut HwlocTopology">>, <<"pid", "pid_t">>, <<"set", "*mut IntHwlocBitmap">>, <<"flags", "c_int">>>>,
        ret |-> "c_int"],
       [name |-> "hwloc_set_proc_cpubind",
        params |-> <<<<"topology", "*mut HwlocTopology">>, <<"pid", "pid_t">>, <<"set", "*const IntHwlocBitmap">>, <<"flags", "c_int">>>>,
        ret |-> "c_int"],
       [name |-> "hwloc_get_proc_cpubind",
        params |-> <<<<"topology", "*mut HwlocTopology">>, <<"pid", "pid_t">>, <<"set", "*mut IntHwlocBitmap">>, <<"flags", "c_int">>>>,
        ret |-> "c_int"],
       [name |-> "hwloc_set_thread_cpubind",
        params |-> <<<<"topology", "*mut HwlocTopology">>, <<"thread", "pthread_t">>, <<"set", "*const IntHwlocBitmap">>, <<"flags", "c_int">>>>,
        ret |-> "c_int"],
       [name |-> "hwloc_get_thread_cpubind",
        params |-> <<<<"topology", "*mut HwlocTopology">>, <<"pid", "pthread_t">>, <<"set", "*mut IntHwlocBitmap">>, <<"flags", "c_int">>>>,
        ret |-> "c_int"],
       [name |-> "hwloc_bitmap_alloc",
        params |-> <<>>,
        ret |-> "*mut IntHwlocBitmap"],
       [name |-> "hwloc_bitmap_alloc_full",
        params |-> <<>>,
        ret |-> "*mut IntHwlocBitmap"],
       [name |-> "hwloc_bitmap_free",
        params |-> <<<<"bitmap", "*mut IntHwlocBitmap">>>>,
        ret |-> "()"],
       [name |-> "hwloc_bitmap_list_asprintf",
        params |-> <<<<"strp", "*mut *mut c_char">>, <<"bitmap", "*const IntHwlocBitmap">>>>,
        ret |-> "c_int"],
       [name |-> "hwloc_bitmap_set",
        params |-> <<<<"bitmap", "*mut IntHwlocBitmap">>, <<"id", "c_uint">>>>,
        ret |-> "()"],
       [name |-> "hwloc_bitmap_set_range",
        params |-> <<<<"bitmap", "*mut IntHwlocBitmap">>, <<"begin", "c_uint">>, <<"end", "c_int">>>>,
        ret |-> "()"],
       [name |-> "hwloc_bitmap_clr",
        params |-> <<<<"bitmap", "*mut IntHwlocBitmap">>, <<"id", "c_uint">>>>,
        ret |-> "()"],
       [name |-> "hwloc_bitmap_clr_range",
        params |-> <<<<"bitmap", "*mut IntHwlocBitmap">>, <<"begin", "c_uint">>, <<"end", "c_int">>>>,
        ret |-> "()"],
       [name |-> "hwloc_bitmap_weight",
        params |-> <<<<"bitmap", "*const IntHwlocBitmap">>>>,
        ret |-> "c_int"],
       [name |-> "hwloc_bitmap_zero",
        params |-> <<<<"bitmap", "*mut IntHwlocBitmap">>>>,
        ret |-> "()"],
       [name |-> "hwloc_bitmap_iszero",
        params |-> <<<<"bitmap", "*const IntHwlocBitmap">>>>,
        ret |-> "c_int"],
       [name |-> "hwloc_bitmap_isset",
        params |-> <<<<"bitmap", "*const IntHwlocBitmap">>, <<"id", "c_uint">>>>,
        ret |-> "c_int"],
       [name |-> "hwloc_bitmap_singlify",
        params |-> <<<<"bitmap", "*mut IntHwlocBitmap">>>>,
        ret |-> "()"],
       [name |-> "hwloc_bitmap_not",
        params |-> <<<<"result", "*mut IntHwlocBitmap">>, <<"bitmap", "*const IntHwlocBitmap">>>>,
        ret |-> "()"],
       [name |-> "hwloc_bitmap_first",
        params |-> <<<<"bitmap", "*const IntHwlocBitmap">>>>,
        ret |-> "c_int"],
       [name |-> "hwloc_bitmap_last",
        params |-> <<<<"bitmap", "*const IntHwlocBitmap">>>>,
        ret |-> "c_int"],
       [name |-> "hwloc_bitmap_dup",
        params |-> <<<<"src", "*const IntHwlocBitmap">>>>,
        ret |-> "*mut IntHwlocBitmap"],
       [name |-> "hwloc_bitmap_compare",
        params |-> <<<<"left", "*const IntHwlocBitmap">>, <<"right", "*const IntHwlocBitmap">>>>,
        ret |-> "c_int"],
       [name |-> "hwloc_bitmap_isequal",
        params |-> <<<<"left", "*const IntHwlocBitmap">>, <<"right", "*const IntHwlocBitmap">>>>,
        ret |-> "c_int"],
       [name |-> "hwloc_bitmap_isfull",
        params |-> <<<<"bitmap", "*const IntHwlocBitmap">>>>,
        ret |-> "c_int"],
       [name |-> "hwloc_bitmap_next",
        params |-> <<<<"bitmap", "*const IntHwlocBitmap">>, <<"prev", "c_int">>>>,
        ret |-> "c_int"],
       [name |-> "hwloc_obj_type_snprintf",
        params |-> <<<<"into", "*mut c_char">>, <<"size", "c_int">>, <<"object", "*const TopologyObject">>, <<"verbose", "bool">>>>,
        ret |-> "c_int"],
       [name |-> "hwloc_obj_attr_snprintf",
        params |-> <<<<"into", "*mut c_char">>, <<"size", "c_int">>, <<"object", "*const TopologyObject">>, <<"separator", "*const c_char">>, <<"verbose", "bool">>>>,
        ret |-> "c_int"],
       [name |-> "hwloc_compare_types",
        params |-> <<<<"type1", "ObjectType">>, <<"type2", "ObjectType">>>>,
        ret |-> "c_int"]
    >>

\* Declared with the Windows block passing hwloc_set_cpubind's set as *mut.
Declared_MutSet(os) ==
    IF os = "windows"
    THEN [ i \in 1..Len(ExternWindows) |->
             IF ExternWindows[i].name = "hwloc_set_cpubind"
             THEN [ExternWindows[i] EXCEPT !.params[2][2] = "*mut IntHwlocBitmap"]
             ELSE ExternWindows[i] ]
    ELSE ExternOther

\* The block the build compiles: #[cfg(target_os = "windows")] or not.
Declared(os) == IF os = "windows" THEN ExternWindows ELSE ExternOther

TargetOs == { "windows", "other" }

ParamTypes(sig) == [ k \in DOMAIN sig.params |-> sig.params[k][2] ]

\* ------------------------------------------------------------------ state

Init ==
    /\ op = "init"
    /\ self = NoVal
    /\ other = NoVal
    /\ compared = NoVal
    /\ result = NoVal
    /\ swapResult = NoVal
    /\ flag = NoVal
    /\ n = NoVal
    /\ depthErr = NoVal
    /\ decl = NoVal
    /\ oobWord \in 0..MaxOobWord

\* a.partial_cmp(&b)
PartialCmp(a, b) ==
    /\ op' = "partial_cmp"
    /\ self' = a
    /\ other' = b
    /\ compared' = hwloc_compare_types(a, b)
    /\ result' = partial_cmp(a, b)
    /\ swapResult' = NoVal
    /\ flag' = NoVal
    /\ n' = NoVal
    /\ depthErr' = NoVal
    /\ decl' = NoVal
    /\ UNCHANGED oobWord

\* b.partial_cmp(&a), for the a and b last compared.
PartialCmpSwapped ==
    /\ op = "partial_cmp"
    /\ op' = "partial_cmp_swapped"
    /\ swapResult' = partial_cmp(other, self)
    /\ UNCHANGED <<self, other, compared, result, flag, n, depthErr, decl, oobWord>>

\* a == b
Eq(a, b) ==
    /\ op' = "eq"
    /\ self' = a
    /\ other' = b
    /\ compared' = hwloc_compare_types(a, b)
    /\ result' = eq(a, b)
    /\ swapResult' = NoVal
    /\ flag' = NoVal
    /\ n' = NoVal
    /\ depthErr' = NoVal
    /\ decl' = NoVal
    /\ UNCHANGED oobWord

\* t as u32
ObjectTypeCast(t) ==
    /\ op' = "as_u32"
    /\ self' = t
    /\ result' = ObjectTypeAsU32(t)
    /\ other' = NoVal
    /\ compared' = NoVal
    /\ swapResult' = NoVal
    /\ flag' = NoVal
    /\ n' = NoVal
    /\ depthErr' = NoVal
    /\ decl' = NoVal
    /\ UNCHANGED oobWord

\* e as i32
TypeDepthErrorCast(e) ==
    /\ op' = "depth_as_int"
    /\ depthErr' = e
    /\ result' = TypeDepthErrorAsInt(e)
    /\ self' = NoVal
    /\ other' = NoVal
    /\ compared' = NoVal
    /\ swapResult' = NoVal
    /\ flag' = NoVal
    /\ n' = NoVal
    /\ decl' = NoVal
    /\ UNCHANGED oobWord

\* f as u64
TopologyFlagCast(f) ==
    /\ op' = "flag_as_int"
    /\ flag' = f
    /\ result' = TopologyFlagAsInt(f)
    /\ self' = NoVal
    /\ other' = NoVal
    /\ compared' = NoVal
    /\ swapResult' = NoVal
    /\ n' = NoVal
    /\ depthErr' = NoVal
    /\ decl' = NoVal
    /\ UNCHANGED oobWord

\* f.to_i64()
ToI64(f) ==
    /\ op' = "to_i64"
    /\ flag' = f
    /\ result' = to_i64(f)
    /\ self' = NoVal
    /\ other' = NoVal
    /\ compared' = NoVal
    /\ swapResult' = NoVal
    /\ n' = NoVal
    /\ depthErr' = NoVal
    /\ decl' = NoVal
    /\ UNCHANGED oobWord

\* f.to_u64()
ToU64(f) ==
    /\ op' = "to_u64"
    /\ flag' = f
    /\ result' = to_u64(f)
    /\ self' = NoVal
    /\ other' = NoVal
    /\ compared' = NoVal
    /\ swapResult' = NoVal
    /\ n' = NoVal
    /\ depthErr' = NoVal
    /\ decl' = NoVal
    /\ UNCHANGED oobWord

\* TopologyFlag::from_i64(k)
FromI64(k) ==
    /\ op' = "from_i64"
    /\ n' = k
    /\ result' = from_i64(k)
    /\ self' = NoVal
    /\ other' = NoVal
    /\ compared' = NoVal
    /\ swapResult' = NoVal
    /\ flag' = NoVal
    /\ depthErr' = NoVal
    /\ decl' = NoVal
    /\ UNCHANGED oobWord

\* TopologyFlag::from_i64(v), for the Some(v) that f.to_i64() last returned.
FromI64Back ==
    /\ op = "to_i64"
    /\ result # None
    /\ op' = "from_i64_back"
    /\ n' = result[2]
    /\ result' = from_i64(result[2])
    /\ UNCHANGED <<self, other, compared, swapResult, flag, depthErr, decl, oobWord>>

\* The build resolves the i-th declaration of the block compiled for os.
Resolve(os, i) ==
    /\ op' = "resolve"
    /\ decl' = [os |-> os, sig |-> Declared(os)[i]]
    /\ result' = NoVal
    /\ self' = NoVal
    /\ other' = NoVal
    /\ compared' = NoVal
    /\ swapResult' = NoVal
    /\ flag' = NoVal
    /\ n' = NoVal
    /\ depthErr' = NoVal
    /\ UNCHANGED oobWord

Next ==
    \/ \E a \in ObjectType, b \in ObjectType : PartialCmp(a, b)
    \/ PartialCmpSwapped
    \/ \E a \in ObjectType, b \in ObjectType : Eq(a, b)
    \/ \E t \in ObjectType : ObjectTypeCast(t)
    \/ \E e \in TypeDepthErrorVariants : TypeDepthErrorCast(e)
    \/ \E f \in TopologyFlag : TopologyFlagCast(f)
    \/ \E f \in TopologyFlag : ToI64(f)
    \/ \E f \in TopologyFlag : ToU64(f)
    \/ \E k \in (-MaxN)..MaxN : FromI64(k)
    \/ FromI64Back
    \/ \E os \in TargetOs : \E i \in 1..Len(Declared(os)) : Resolve(os, i)

Spec == Init /\ [][Next]_vars

\* ----------------------------------------------------------------- claims

\* C1: every TopologyFlag maps to its documented constant -- IncludeDisallowed
\* to 1, IsThisSystem to 2, ThisSystemAllowedResources to 4 -- as the enum's
\* numeric value and as the result of to_i64 and to_u64, which are Some of
\* that constant and never None.
C1_FlagToInteger ==
    LET documented ==
            CASE flag = "IncludeDisallowed"          -> 1
              [] flag = "IsThisSystem"               -> 2
              [] flag = "ThisSystemAllowedResources" -> 4
    IN  /\ op = "flag_as_int" => result = documented
        /\ op = "to_i64" => result = Some(documented)
        /\ op = "to_u64" => result = Some(documented)

C1_Witness ==
    /\ op = "to_u64"
    /\ flag = "ThisSystemAllowedResources"
    /\ result = Some(4)

C4_DepthErrorsNegativeDistinct ==
    op = "depth_as_int" =>
        /\ result < 0
        /\ result =
              CASE depthErr = "TypeDepthUnknown"   -> -1
                [] depthErr = "TypeDepthMultiple"  -> -2
                [] depthErr = "TypeDepthNumaNode"  -> -3
                [] depthErr = "TypeDepthBridge"    -> -4
                [] depthErr = "TypeDepthPCIDevice" -> -5
                [] depthErr = "TypeDepthOSDevice"  -> -6
                [] depthErr = "TypeDepthMisc"      -> -7
                [] depthErr = "TypeDepthMemcache"  -> -8
                [] depthErr = "Unkown"             -> -99
        /\ \A e \in TypeDepthErrorVariants \ {depthErr} :
              TypeDepthErrorAsInt(e) # result
        /\ Cardinality(TypeDepthErrorVariants) = 9

C4_Witness ==
    /\ op = "depth_as_int"
    /\ depthErr = "Unkown"
    /\ result = -99

\* C5 as stated: partial_cmp returns each of less / equal / greater /
\* incomparable from the integer of one hwloc_compare_types call: Some(Less)
\* for a negative one, Some(Equal) for zero, Some(Greater) for a positive
\* one, and None for the integer with which the native routine reports two
\* types as not comparable (HWLOC_TYPE_UNORDERED).
C5_FourOutcomes ==
    op = "partial_cmp" =>
        /\ compared = hwloc_compare_types(self, other)
        /\ (compared < 0 /\ compared # HWLOC_TYPE_UNORDERED) =>
              result = Some("Less")
        /\ compared = 0 => result = Some("Equal")
        /\ (compared > 0 /\ compared # HWLOC_TYPE_UNORDERED) =>
              result = Some("Greater")
        /\ compared = HWLOC_TYPE_UNORDERED => result = None

\* C6: ObjectType mirrors the native constants as unsigned values: its 21
\* variants have the pairwise distinct, consecutive values 0..20 in
\* declaration order (Machine=0 .. Die=19), and the sentinel TypeMax=20 is
\* strictly greater than the value of every other variant.
C6_ObjectTypeValues ==
    op = "as_u32" =>
        /\ result =
              CASE self = "Machine"   -> 0
                [] self = "Package"   -> 1
                [] self = "Core"      -> 2
                [] self = "PU"        -> 3
                [] self = "L1Cache"   -> 4
                [] self = "L2Cache"   -> 5
                [] self = "L3Cache"   -> 6
                [] self = "L4Cache"   -> 7
                [] self = "L5Cache"   -> 8
                [] self = "L1ICache"  -> 9
                [] self = "L2ICache"  -> 10
                [] self = "L3ICache"  -> 11
                [] self = "Group"     -> 12
                [] self = "NUMANode"  -> 13
                [] self = "Bridge"    -> 14
                [] self = "PCIDevice" -> 15
                [] self = "OSDevice"  -> 16
                [] self = "Misc"      -> 17
                [] self = "Memcache"  -> 18
                [] self = "Die"       -> 19
                [] self = "TypeMax"   -> 20
        /\ \A t \in ObjectType \ {self} : ObjectTypeAsU32(t) # result
        /\ self # "TypeMax" => result < ObjectTypeAsU32("TypeMax")
        /\ Cardinality(ObjectType) = 21
        /\ { ObjectTypeAsU32(t) : t \in ObjectType } = 0..20

C6_Witness ==
    /\ op = "as_u32"
    /\ self = "TypeMax"
    /\ result = 20

\* C7: the foreign interface declared for Windows (libhwloc) and the one
\* declared for every other platform (hwloc) are the same: whatever function
\* one block declares, the other declares once, at the same position, with
\* the same parameter order, parameter types and return type.
C7_ExternBlocksAgree ==
    op = "resolve" =>
        LET block == Declared(decl.os)
            twin == Declared(IF decl.os = "windows" THEN "other" ELSE "windows")
            same == { j \in 1..Len(twin) : twin[j].name = decl.sig.name }
        IN  /\ Len(twin) = Len(block)
            /\ Cardinality(same) = 1
            /\ Cardinality({ j \in 1..Len(block) :
                               block[j].name = decl.sig.name }) = 1
            /\ \A j \in same :
                  /\ block[j] = decl.sig
                  /\ ParamTypes(twin[j]) = ParamTypes(decl.sig)
                  /\ twin[j].ret = decl.sig.ret

C7_Witness ==
    /\ op = "resolve"
    /\ decl.os = "windows"
    /\ decl.sig.name = "hwloc_set_cpubind"
    /\ ParamTypes(decl.sig) =
          <<"*mut HwlocTopology", "*const IntHwlocBitmap", "c_int">>

\* C8: the TopologyFlag conversion round-trips and is closed:
\* from_i64(to_i64(f)) is Some(f) for every flag f; from_i64(n) is Some(f)
\* exactly when n is 1, 2 or 4, and then to_i64(f) is Some(n); it is None for
\* every other n, among them 0, the negative values and the unions of flags
\* 3, 5, 6 and 7.
C8_FlagRoundTrip ==
    /\ op = "from_i64_back" => result = Some(flag)
    /\ op = "from_i64" =>
          /\ n \in {1, 2, 4} <=> result # None
          /\ n \notin {1, 2, 4} => result = None
          /\ result # None =>
                /\ result[2] \in TopologyFlag
                /\ to_i64(result[2]) = Some(n)

C8_Witness ==
    /\ op = "from_i64_back"
    /\ flag = "ThisSystemAllowedResources"
    /\ n = 4
    /\ result = Some("ThisSystemAllowedResources")

\* C9 as stated: partial_cmp is dual under the exchange of its arguments:
\* for every pair A, B (the pairs the native library reports as not
\* comparable included), A.partial_cmp(B) is Some(Less) if and only if
\* B.partial_cmp(A) is Some(Greater), so A > B and B > A never both hold.
C9_DualUnderSwap ==
    op = "partial_cmp_swapped" =>
        /\ result = Some("Less") <=> swapResult = Some("Greater")
        /\ result = Some("Greater") <=> swapResult = Some("Less")
        /\ ~(result = Some("Greater") /\ swapResult = Some("Greater"))
        /\ ~(result = Some("Less") /\ swapResult = Some("Less"))

====
